---- MODULE Spec2Model ----
(***************************************************************************)
(* Model of the neotrellis driver (src/src/lib.rs): the register transport *)
(* over an I2C bus, the key and event codecs, the single-device driver     *)
(* NeoTrellis and the multi-device composer MultiTrellis.                  *)
(*                                                                         *)
(* The driver keeps no state of its own besides the bus handle and the bus *)
(* address.  Every public operation is one action; what it does on the bus *)
(* and on the delay provider is recorded, in order, in trace.  The bus is  *)
(* an external capability: each transaction may fail, and a read returns   *)
(* whatever the device supplies; both are inputs of the action.            *)
(***************************************************************************)
EXTENDS Integers, Sequences, FiniteSets, TLC

VARIABLES
  trellis,       \* MultiTrellis.trellis: a slice of slices of NeoTrellis
  call,          \* the last operation called and its arguments
  trace,         \* bus transactions and delays of the last call, in order
  result,        \* what the last call returned: Ok, an Error, or a panic
  events,        \* the caller's slice handed to read_key_events
  multi_events,  \* the caller's slice handed to MultiTrellis::read_events
  ret,           \* value returned by keypad_count
  codec          \* Key codec under test: index, wire byte, decoded index

vars == <<trellis, call, trace, result, events, multi_events, ret, codec>>

(***************************************************************************)
(* Program constants.                                                      *)
(***************************************************************************)
Module_Status == 0
Module_Neopixel == 14
Module_Keypad == 16

STATUS_HW_ID == 1
STATUS_SWRST == 127

NEOPIXEL_PIN == 1
NEOPIXEL_BUF_LENGTH == 3
NEOPIXEL_BUF == 4
NEOPIXEL_SHOW == 5

KEYPAD_EVENT == 1
KEYPAD_COUNT == 4
KEYPAD_FIFO == 16

HW_ID_CODE == 85

Event_High == 0
Event_Low == 1
Event_Falling == 2
Event_Rising == 3

U8Max == 255
Byte == 0..U8Max

(***************************************************************************)
(* u8 / u16 arithmetic.                                                    *)
(***************************************************************************)
RECURSIVE Pow2(_)
Pow2(n) == IF n = 0 THEN 1 ELSE 2 * Pow2(n - 1)

RECURSIVE BitAnd(_, _)
BitAnd(a, b) ==
  IF a = 0 \/ b = 0 THEN 0
  ELSE (a % 2) * (b % 2) + 2 * BitAnd(a \div 2, b \div 2)

RECURSIVE BitOr(_, _)
BitOr(a, b) ==
  IF a = 0 THEN b
  ELSE IF b = 0 THEN a
  ELSE (IF a % 2 = 1 \/ b % 2 = 1 THEN 1 ELSE 0) + 2 * BitOr(a \div 2, b \div 2)

\* u8 << n and u8 >> n
Shl8(a, n) == (a * Pow2(n)) % 256
Shr(a, n) == a \div Pow2(n)

\* u16::to_be_bytes
to_be_bytes16(v) == <<(v \div 256) % 256, v % 256>>

(***************************************************************************)
(* Color, Event, Key.                                                      *)
(***************************************************************************)
rgb(r, g, b) == [r |-> r, g |-> g, b |-> b]

as_grb_slice(color) == <<color.g, color.r, color.b>>

Events == {Event_High, Event_Low, Event_Falling, Event_Rising}

\* A Key is the u8 it wraps.
from_index(i) == i

index(key) == key

deserialize(wire_byte) ==
  BitOr(Shr(BitAnd(wire_byte, 248), 1), BitAnd(wire_byte, 3))

\* serialize without the mask on the upper index bits
serialize_nomask(key) ==
  BitOr(Shl8(key, 1), BitAnd(key, 3))

serialize(key) ==
  BitOr(Shl8(BitAnd(key, 12), 1), BitAnd(key, 3))

\* Option<KeypadEvent>, Option<MultiEvent>
None == [tag |-> "None"]
SomeKeypadEvent(key, event) == [tag |-> "Some", key |-> key, event |-> event]
SomeMultiEvent(cx, cy, event) ==
  [tag |-> "Some", coordinate |-> <<cx, cy>>, event |-> event]

(***************************************************************************)
(* The bus and the delay provider.  A context c threads one call through   *)
(* its steps: the trace so far, the number of bus transactions issued, the *)
(* transaction that the bus fails (failAt, 0 for none), what each device   *)
(* answers to a read (rx), the bytes of the last read (value), the         *)
(* caller's output slices (events, multi) and the outcome so far (res).    *)
(***************************************************************************)
NoBus == <<>>

Ev(kind, bus, addr, bytes, n, ok) ==
  [kind |-> kind, bus |-> bus, addr |-> addr, bytes |-> bytes, n |-> n, ok |-> ok]

Ctx(failAt, rx) ==
  [trace |-> <<>>, count |-> 0, failAt |-> failAt, rx |-> rx,
   value |-> <<>>, events |-> <<>>, multi |-> <<>>, ok |-> TRUE, res |-> "Ok"]

\* embedded_hal Write::write(address, bytes) on the driver's bus
bus_write(c, drv, bytes) ==
  LET k == c.count + 1
      ok == k # c.failAt
  IN [c EXCEPT !.count = k, !.ok = ok,
               !.trace = Append(@, Ev("write", drv.bus, drv.address, bytes, Len(bytes), ok))]

\* embedded_hal Read::read(address, buffer) on the driver's bus
bus_read(c, drv, len) ==
  LET k == c.count + 1
      ok == k # c.failAt
      data == IF ok THEN SubSeq(c.rx[drv.bus], 1, len) ELSE <<>>
  IN [c EXCEPT !.count = k, !.ok = ok, !.value = data,
               !.trace = Append(@, Ev("read", drv.bus, drv.address, data, len, ok))]

delay_ms(c, ms) ==
  [c EXCEPT !.trace = Append(@, Ev("delay_ms", NoBus, 0, <<>>, ms, TRUE))]

delay_us(c, us) ==
  [c EXCEPT !.trace = Append(@, Ev("delay_us", NoBus, 0, <<>>, us, TRUE))]

(***************************************************************************)
(* Register transport.                                                     *)
(***************************************************************************)
\* write_register that tries a failed bus write once more
write_register_retry(c, drv, module, register, value) ==
  IF ~(Len(value) < 32) THEN [c EXCEPT !.res = "Panic"]
  ELSE
    LET command == <<module, register>> \o value
        c1 == bus_write(c, drv, command)
        c2 == IF c1.ok THEN c1 ELSE bus_write(c1, drv, command)
    IN IF c2.ok THEN c2 ELSE [c2 EXCEPT !.res = "WriteError"]

write_register(c, drv, module, register, value) ==
  IF ~(Len(value) < 32) THEN [c EXCEPT !.res = "Panic"]
  ELSE
    LET command == <<module, register>> \o value
        c1 == bus_write(c, drv, command)
    IN IF c1.ok THEN c1 ELSE [c1 EXCEPT !.res = "WriteError"]

\* read_register without the settling delay
read_register_nodelay(c, drv, module, register, len) ==
  LET command == <<module, register>>
      c1 == bus_write(c, drv, command)
  IN IF ~c1.ok THEN [c1 EXCEPT !.res = "WriteError"]
     ELSE
       LET c3 == bus_read(c1, drv, len)
       IN IF c3.ok THEN c3 ELSE [c3 EXCEPT !.res = "ReadError"]

\* read_register that reports a failed bus read as a write error
read_register_writeerr(c, drv, module, register, len) ==
  LET command == <<module, register>>
      c1 == bus_write(c, drv, command)
  IN IF ~c1.ok THEN [c1 EXCEPT !.res = "WriteError"]
     ELSE
       LET c2 == delay_ms(c1, 6)
           c3 == bus_read(c2, drv, len)
       IN IF c3.ok THEN c3 ELSE [c3 EXCEPT !.res = "WriteError"]

read_register(c, drv, module, register, len) ==
  LET command == <<module, register>>
      c1 == bus_write(c, drv, command)
  IN IF ~c1.ok THEN [c1 EXCEPT !.res = "WriteError"]
     ELSE
       LET c2 == delay_ms(c1, 6)
           c3 == bus_read(c2, drv, len)
       IN IF c3.ok THEN c3 ELSE [c3 EXCEPT !.res = "ReadError"]

(***************************************************************************)
(* Single-device driver.                                                   *)
(***************************************************************************)
\* set_key_event shifting by the ordinal, not by the ordinal plus one
set_key_event_shift(c, drv, key, event, enable) ==
  LET command == BitOr(Shl8(1, event), IF enable THEN 1 ELSE 0)
  IN write_register(c, drv, Module_Keypad, KEYPAD_EVENT, <<serialize(key), command>>)

set_key_event(c, drv, key, event, enable) ==
  LET command == BitOr(Shl8(1, event + 1), IF enable THEN 1 ELSE 0)
  IN write_register(c, drv, Module_Keypad, KEYPAD_EVENT, <<serialize(key), command>>)

\* soft_reset that reads the hardware id and does not compare it
soft_reset_nocheck(c, drv) ==
  LET c1 == write_register(c, drv, Module_Status, STATUS_SWRST, <<255>>)
  IN IF c1.res # "Ok" THEN c1
     ELSE
       LET c2 == delay_ms(c1, 500)
       IN read_register(c2, drv, Module_Status, STATUS_HW_ID, 1)

soft_reset(c, drv) ==
  LET c1 == write_register(c, drv, Module_Status, STATUS_SWRST, <<255>>)
  IN IF c1.res # "Ok" THEN c1
     ELSE
       LET c2 == delay_ms(c1, 500)
           c3 == read_register(c2, drv, Module_Status, STATUS_HW_ID, 1)
       IN IF c3.res # "Ok" THEN c3
          ELSE IF c3.value[1] # HW_ID_CODE
               THEN [c3 EXCEPT !.res = "WrongChipId"]
               ELSE c3

setup_neopixel(c, drv) ==
  LET pin == 3
      c1 == write_register(c, drv, Module_Neopixel, NEOPIXEL_PIN, <<pin>>)
  IN IF c1.res # "Ok" THEN c1
     ELSE
       LET buffer_length == 16 * 3
       IN write_register(c1, drv, Module_Neopixel, NEOPIXEL_BUF_LENGTH,
                         to_be_bytes16(buffer_length))

\* the loop body with the last line a copy of the one before it
setup_key_falling_twice(c, drv, i) ==
  LET key == from_index(i)
      c1 == set_key_event(c, drv, key, Event_Low, FALSE)
  IN IF c1.res # "Ok" THEN c1
     ELSE
       LET c2 == set_key_event(c1, drv, key, Event_High, FALSE)
       IN IF c2.res # "Ok" THEN c2
          ELSE
            LET c3 == set_key_event(c2, drv, key, Event_Falling, TRUE)
            IN IF c3.res # "Ok" THEN c3
               ELSE set_key_event(c3, drv, key, Event_Falling, TRUE)

\* the body of the loop of setup_keypad for key i
setup_key(c, drv, i) ==
  LET key == from_index(i)
      c1 == set_key_event(c, drv, key, Event_Low, FALSE)
  IN IF c1.res # "Ok" THEN c1
     ELSE
       LET c2 == set_key_event(c1, drv, key, Event_High, FALSE)
       IN IF c2.res # "Ok" THEN c2
          ELSE
            LET c3 == set_key_event(c2, drv, key, Event_Falling, TRUE)
            IN IF c3.res # "Ok" THEN c3
               ELSE set_key_event(c3, drv, key, Event_Rising, TRUE)

RECURSIVE setup_keypad_from(_, _, _)
setup_keypad_from(c, drv, i) ==
  IF i = 16 THEN c
  ELSE
    LET c1 == setup_key(c, drv, i)
    IN IF c1.res # "Ok" THEN c1 ELSE setup_keypad_from(c1, drv, i + 1)

setup_keypad(c, drv) == setup_keypad_from(c, drv, 0)

\* new with the keypad set up before the pixels
new_keypad_first(c, drv) ==
  LET c1 == soft_reset(c, drv)
  IN IF c1.res # "Ok" THEN c1
     ELSE
       LET c2 == setup_keypad(c1, drv)
       IN IF c2.res # "Ok" THEN c2 ELSE setup_neopixel(c2, drv)

new(c, drv) ==
  LET c1 == soft_reset(c, drv)
  IN IF c1.res # "Ok" THEN c1
     ELSE
       LET c2 == setup_neopixel(c1, drv)
       IN IF c2.res # "Ok" THEN c2 ELSE setup_keypad(c2, drv)

\* set_led_color with the offset computed in u8
set_led_color_u8(c, drv, led, color) ==
  LET led_address == (led * 3) % 256
      command == to_be_bytes16(led_address) \o as_grb_slice(color)
      c1 == write_register(c, drv, Module_Neopixel, NEOPIXEL_BUF, command)
  IN IF c1.res # "Ok" THEN c1 ELSE delay_us(c1, 100)

set_led_color(c, drv, led, color) ==
  LET led_address == (led * 3) % 65536
      command == to_be_bytes16(led_address) \o as_grb_slice(color)
      c1 == write_register(c, drv, Module_Neopixel, NEOPIXEL_BUF, command)
  IN IF c1.res # "Ok" THEN c1 ELSE delay_us(c1, 100)

show_led(c, drv) ==
  LET c1 == write_register(c, drv, Module_Neopixel, NEOPIXEL_SHOW, <<>>)
  IN IF c1.res # "Ok" THEN c1 ELSE delay_us(c1, 100)

\* the decoding without the sentinel test
decode_item_nosentinel(item) ==
  SomeKeypadEvent(deserialize(Shr(item, 2)), BitAnd(item, 3))

\* the decoding of one FIFO byte into an Option<KeypadEvent>; item & 0x03 is
\* always one of the four Event ordinals, so Event::try_from never fails
decode_item(item) ==
  IF item = 255 THEN None
  ELSE SomeKeypadEvent(deserialize(Shr(item, 2)), BitAnd(item, 3))

\* read_key_events capping the request at 32 slots instead of asserting
read_key_events_truncate(c, drv, buf) ==
  LET n == IF Len(buf) <= 32 THEN Len(buf) ELSE 32
      c1 == read_register(c, drv, Module_Keypad, KEYPAD_FIFO, n)
  IN IF c1.res # "Ok" THEN [c1 EXCEPT !.events = buf]
     ELSE [c1 EXCEPT !.events =
             [i \in 1..Len(buf) |-> IF i <= n THEN decode_item(c1.value[i]) ELSE buf[i]]]

\* buf is the caller's slice; c.events is the slice when the call ends
read_key_events(c, drv, buf) ==
  IF ~(Len(buf) <= 32) THEN [c EXCEPT !.res = "Panic", !.events = buf]
  ELSE
    LET c1 == read_register(c, drv, Module_Keypad, KEYPAD_FIFO, Len(buf))
    IN IF c1.res # "Ok" THEN [c1 EXCEPT !.events = buf]
       ELSE [c1 EXCEPT !.events = [i \in 1..Len(buf) |-> decode_item(c1.value[i])]]

keypad_count(c, drv) ==
  read_register(c, drv, Module_Keypad, KEYPAD_COUNT, 1)

(***************************************************************************)
(* Multi-device composer.  tr is the slice of slices: tr[x + 1][y + 1] is  *)
(* self.trellis[x][y].                                                     *)
(***************************************************************************)
\* the local index without the stride of the tile's rows
MultiTrellis_set_led_color_nostride(c, tr, x, y, color) ==
  LET tx == x \div 4
      ty == y \div 4
      i == ((x % 4) + (y % 4)) % 256
  IN IF tx < Len(tr) /\ ty < Len(tr[tx + 1])
     THEN set_led_color(c, tr[tx + 1][ty + 1], i, color)
     ELSE c

\* the tile indexed without the bounds check: the index panics
MultiTrellis_set_led_color_unchecked(c, tr, x, y, color) ==
  LET tx == x \div 4
      ty == y \div 4
      i == ((x % 4) + (y % 4) * 4) % 256
  IN IF tx < Len(tr) /\ ty < Len(tr[tx + 1])
     THEN set_led_color(c, tr[tx + 1][ty + 1], i, color)
     ELSE [c EXCEPT !.res = "Panic"]

MultiTrellis_set_led_color(c, tr, x, y, color) ==
  LET tx == x \div 4
      ty == y \div 4
      i == ((x % 4) + (y % 4) * 4) % 256
  IN IF tx < Len(tr) /\ ty < Len(tr[tx + 1])
     THEN set_led_color(c, tr[tx + 1][ty + 1], i, color)
     ELSE c

\* show_row latching only the first tile of the slice
show_row_first(c, row, y) ==
  IF y = Len(row) THEN c ELSE show_led(c, row[y + 1])

RECURSIVE show_row(_, _, _)
show_row(c, row, y) ==
  IF y = Len(row) THEN c
  ELSE
    LET c1 == show_led(c, row[y + 1])
    IN IF c1.res # "Ok" THEN c1 ELSE show_row(c1, row, y + 1)

RECURSIVE show_rows(_, _, _)
show_rows(c, tr, x) ==
  IF x = Len(tr) THEN c
  ELSE
    LET c1 == show_row(c, tr[x + 1], 0)
    IN IF c1.res # "Ok" THEN c1 ELSE show_rows(c1, tr, x + 1)

MultiTrellis_show(c, tr) == show_rows(c, tr, 0)

\* the inner loop storing every decoded entry, None included
RECURSIVE store_events_clearing(_, _, _, _, _)
store_events_clearing(c, single_event, k, x, y) ==
  IF k > Len(single_event) THEN c
  ELSE IF x > U8Max \/ y > U8Max THEN [c EXCEPT !.res = "Panic"]
  ELSE IF x + 4 * y >= Len(c.multi) THEN [c EXCEPT !.res = "Panic"]
  ELSE
    LET e == single_event[k]
    IN store_events_clearing(
         [c EXCEPT !.multi[x + 4 * y + 1] =
            IF e.tag = "Some"
            THEN SomeMultiEvent((4 * x + (index(e.key) % 4)) % 256,
                                (4 * y + (index(e.key) \div 4)) % 256,
                                e.event)
            ELSE None],
         single_event, k + 1, x, y)

\* the inner loop of read_events over the 16 decoded events of tile (x, y),
\* from the k-th on; indexing events[x + 4 * y] out of bounds panics.  The
\* coordinates are u8: 4 * xc + .. stays below 256 in every grid narrower
\* than 62 tiles, so the reduction modulo 256 never takes effect here.
RECURSIVE store_events(_, _, _, _, _)
store_events(c, single_event, k, x, y) ==
  IF k > Len(single_event) THEN c
  ELSE IF x > U8Max \/ y > U8Max THEN [c EXCEPT !.res = "Panic"]
  ELSE
    LET e == single_event[k]
    IN IF e.tag = "Some"
       THEN IF x + 4 * y >= Len(c.multi) THEN [c EXCEPT !.res = "Panic"]
            ELSE store_events(
                   [c EXCEPT !.multi[x + 4 * y + 1] =
                      SomeMultiEvent((4 * x + (index(e.key) % 4)) % 256,
                                     (4 * y + (index(e.key) \div 4)) % 256,
                                     e.event)],
                   single_event, k + 1, x, y)
       ELSE store_events(c, single_event, k + 1, x, y)

RECURSIVE read_row(_, _, _, _)
read_row(c, row, x, y) ==
  IF y = Len(row) THEN c
  ELSE
    LET single_event == [i \in 1..16 |-> None]
        c1 == read_key_events(c, row[y + 1], single_event)
    IN IF c1.res # "Ok" THEN c1
       ELSE
         LET c2 == store_events(c1, c1.events, 1, x, y)
         IN IF c2.res # "Ok" THEN c2 ELSE read_row(c2, row, x, y + 1)

RECURSIVE read_rows(_, _, _)
read_rows(c, tr, x) ==
  IF x = Len(tr) THEN c
  ELSE
    LET c1 == read_row(c, tr[x + 1], x, 0)
    IN IF c1.res # "Ok" THEN c1 ELSE read_rows(c1, tr, x + 1)

\* out is the caller's slice; c.multi is the slice when the call ends
MultiTrellis_read_events(c, tr, out) ==
  read_rows([c EXCEPT !.multi = out], tr, 0)

(***************************************************************************)
(* Bounds and input sets.                                                  *)
(***************************************************************************)
MaxTiles == 3     \* most drivers in a grid
MaxBuf == 3       \* longest short slice handed to read_key_events
MaxFifo == 2      \* device bytes chosen freely at the head of a FIFO read

BufLimit == 32

\* the rectangular grid of cols x rows drivers, each on its own bus <<x, y>>
Grid(cols, rows) ==
  [x1 \in 1..cols |->
     [y1 \in 1..rows |->
        [bus |-> <<x1 - 1, y1 - 1>>,
         address |-> 46 + (x1 - 1) + 4 * (y1 - 1)]]]

Grids ==
  {Grid(d[1], d[2]) :
     d \in {e \in (1..MaxTiles) \X (1..MaxTiles) : e[1] * e[2] <= MaxTiles}}

Tiles(tr) == UNION {{<<x1 - 1, y1 - 1>> : y1 \in 1..Len(tr[x1])} : x1 \in 1..Len(tr)}

Drv(tr, t) == tr[t[1] + 1][t[2] + 1]

Addresses == {46, 47}
HwIds == {HW_ID_CODE, 0, 84, 255}
Colors == {rgb(10, 20, 30), rgb(255, 0, 128)}
KeyIndices == 0..15
\* key 0 rising, wire byte with bit 2 set, key 15 falling, a key wire byte
\* above 0x1f, and the sentinel
FifoBytes == {3, 18, 110, 128, 255}
\* slices handed to read_key_events: untouched, or holding an older event
StaleEvent == SomeKeypadEvent(from_index(9), Event_High)
Slice(n, e) == [i \in 1..n |-> e]
BufLens == (0..MaxBuf) \cup {BufLimit, BufLimit + 1}

Min(a, b) == IF a < b THEN a ELSE b

\* what a device can answer to a read of n bytes: MaxFifo bytes chosen freely,
\* then 0xff for an empty FIFO
Fill(s, n) == [i \in 1..n |-> IF i <= Len(s) THEN s[i] ELSE 255]
DeviceData(n, bytes) ==
  {Fill(s, n) : s \in [1..Min(n, MaxFifo) -> bytes]}

\* the bus transaction a call fails at is one it issues
Fails(c) == c.failAt <= c.count

(***************************************************************************)
(* State machine: one action per public operation.  The driver is used by  *)
(* one caller at a time (every operation takes &mut self and blocks): an   *)
(* operation starts when no call is outstanding and runs to its end, and   *)
(* Return is the caller taking the result, done with the call.             *)
(***************************************************************************)
NoCall == [op |-> "none"]

Init ==
  /\ trellis \in Grids
  /\ call = NoCall
  /\ trace = <<>>
  /\ result = "Ok"
  /\ events = <<>>
  /\ multi_events = <<>>
  /\ ret = 0
  /\ codec = [pc |-> "idle", index |-> 0, key |-> 0, wire |-> 0, back |-> 0]

\* let mut neotrellis = NeoTrellis::new(bus, address, delay)
New(bus, address, id, fail) ==
  LET drv == [bus |-> bus, address |-> address]
  IN \E c \in {new(Ctx(fail, bus :> <<id>>), drv)} :
     /\ call = NoCall
     /\ Fails(c)
     /\ call' = [op |-> "new", drv |-> drv]
     /\ trace' = c.trace
     /\ result' = c.res
     /\ events' = <<>>
     /\ multi_events' = <<>>
     /\ ret' = 0
     /\ UNCHANGED <<trellis, codec>>

SetKeyEvent(t, key, event, enable, fail) ==
  LET drv == Drv(trellis, t)
  IN \E c \in {set_key_event(Ctx(fail, <<>>), drv, key, event, enable)} :
     /\ call = NoCall
     /\ Fails(c)
     /\ call' = [op |-> "set_key_event", drv |-> drv, key |-> key,
                 event |-> event, enable |-> enable]
     /\ trace' = c.trace
     /\ result' = c.res
     /\ events' = <<>>
     /\ multi_events' = <<>>
     /\ ret' = 0
     /\ UNCHANGED <<trellis, codec>>

SetLedColor(t, led, color, fail) ==
  LET drv == Drv(trellis, t)
  IN \E c \in {set_led_color(Ctx(fail, <<>>), drv, led, color)} :
     /\ call = NoCall
     /\ Fails(c)
     /\ call' = [op |-> "set_led_color", drv |-> drv, led |-> led, color |-> color]
     /\ trace' = c.trace
     /\ result' = c.res
     /\ events' = <<>>
     /\ multi_events' = <<>>
     /\ ret' = 0
     /\ UNCHANGED <<trellis, codec>>

ShowLed(t, fail) ==
  LET drv == Drv(trellis, t)
  IN \E c \in {show_led(Ctx(fail, <<>>), drv)} :
     /\ call = NoCall
     /\ Fails(c)
     /\ call' = [op |-> "show_led", drv |-> drv]
     /\ trace' = c.trace
     /\ result' = c.res
     /\ events' = <<>>
     /\ multi_events' = <<>>
     /\ ret' = 0
     /\ UNCHANGED <<trellis, codec>>

\* buf is the caller's slice as handed in, data what the device's FIFO holds
ReadKeyEvents(t, buf, data, fail) ==
  LET drv == Drv(trellis, t)
  IN \E c \in {read_key_events(Ctx(fail, t :> data), drv, buf)} :
     /\ call = NoCall
     /\ Fails(c)
     /\ call' = [op |-> "read_key_events", drv |-> drv, before |-> buf]
     /\ trace' = c.trace
     /\ result' = c.res
     /\ events' = c.events
     /\ multi_events' = <<>>
     /\ ret' = 0
     /\ UNCHANGED <<trellis, codec>>

KeypadCount(t, data, fail) ==
  LET drv == Drv(trellis, t)
  IN \E c \in {keypad_count(Ctx(fail, t :> data), drv)} :
     /\ call = NoCall
     /\ Fails(c)
     /\ call' = [op |-> "keypad_count", drv |-> drv]
     /\ trace' = c.trace
     /\ result' = c.res
     /\ events' = <<>>
     /\ multi_events' = <<>>
     /\ ret' = IF c.res = "Ok" THEN c.value[1] ELSE 0
     /\ UNCHANGED <<trellis, codec>>

MultiSetLedColor(x, y, color, fail) ==
  \E c \in {MultiTrellis_set_led_color(Ctx(fail, <<>>), trellis, x, y, color)} :
     /\ call = NoCall
     /\ Fails(c)
     /\ call' = [op |-> "multi_set_led_color", x |-> x, y |-> y, color |-> color]
     /\ trace' = c.trace
     /\ result' = c.res
     /\ events' = <<>>
     /\ multi_events' = <<>>
     /\ ret' = 0
     /\ UNCHANGED <<trellis, codec>>

MultiShow(fail) ==
  \E c \in {MultiTrellis_show(Ctx(fail, <<>>), trellis)} :
     /\ call = NoCall
     /\ Fails(c)
     /\ call' = [op |-> "multi_show"]
     /\ trace' = c.trace
     /\ result' = c.res
     /\ events' = <<>>
     /\ multi_events' = <<>>
     /\ ret' = 0
     /\ UNCHANGED <<trellis, codec>>

\* out is the caller's slice as handed in, rx what each tile's FIFO holds
MultiReadEvents(out, rx, fail) ==
  \E c \in {MultiTrellis_read_events(Ctx(fail, rx), trellis, out)} :
     /\ call = NoCall
     /\ Fails(c)
     /\ call' = [op |-> "multi_read_events", before |-> out]
     /\ trace' = c.trace
     /\ result' = c.res
     /\ events' = <<>>
     /\ multi_events' = c.multi
     /\ ret' = 0
     /\ UNCHANGED <<trellis, codec>>

(***************************************************************************)
(* The Key codec on its own: an index is made into a Key, serialized to    *)
(* its wire byte, and the wire byte is deserialized and read back.         *)
(***************************************************************************)
KeyFromIndex(i) ==
  /\ codec.pc = "idle"
  /\ codec' = [pc |-> "key", index |-> i, key |-> from_index(i), wire |-> 0, back |-> 0]
  /\ UNCHANGED <<trellis, call, trace, result, events, multi_events, ret>>

KeySerialize ==
  /\ codec.pc = "key"
  /\ codec' = [codec EXCEPT !.pc = "wire", !.wire = serialize(codec.key)]
  /\ UNCHANGED <<trellis, call, trace, result, events, multi_events, ret>>

KeyDeserialize ==
  /\ codec.pc = "wire"
  /\ LET key == deserialize(codec.wire)
     IN codec' = [codec EXCEPT !.pc = "back", !.key = key, !.back = index(key)]
  /\ UNCHANGED <<trellis, call, trace, result, events, multi_events, ret>>

KeyDrop ==
  /\ codec.pc = "back"
  /\ codec' = [pc |-> "idle", index |-> 0, key |-> 0, wire |-> 0, back |-> 0]
  /\ UNCHANGED <<trellis, call, trace, result, events, multi_events, ret>>

\* the caller is done with the last call and its slices
Return ==
  /\ call # NoCall
  /\ call' = NoCall
  /\ trace' = <<>>
  /\ result' = "Ok"
  /\ events' = <<>>
  /\ multi_events' = <<>>
  /\ ret' = 0
  /\ UNCHANGED <<trellis, codec>>

(***************************************************************************)
(* Spec: every operation of the driver and of the composer, in any order.  *)
(***************************************************************************)
MaxTx == 69       \* bus transactions of a complete new(): 1 + 2 + 2 + 16 * 4
MaxActive == 2    \* tiles whose FIFO holds events in one read_events
Coords == {0, 3, 4, 5, 9, 255}
FifoSample == {3, 255}
NumTiles(tr) == Cardinality(Tiles(tr))
\* the shortest slice in which every tile of the grid has its slot x + 4 * y
SlotSpan(tr) ==
  LET last == CHOOSE t \in Tiles(tr) :
                \A u \in Tiles(tr) : u[1] + 4 * u[2] <= t[1] + 4 * t[2]
  IN last[1] + 4 * last[2] + 1
EmptyFifo == Fill(<<>>, 16)

\* what the tiles answer to one read_events: at most MaxActive of them hold events
MultiRx(tr) ==
  {rx \in [Tiles(tr) -> DeviceData(16, FifoSample)] :
     Cardinality({t \in Tiles(tr) : rx[t] # EmptyFifo}) <= MaxActive}

Next ==
  \/ /\ call = NoCall
     /\ \E a \in Addresses, id \in HwIds, fail \in 0..MaxTx :
          New(<<0, 0>>, a, id, fail)
  \/ /\ call = NoCall
     /\ \E t \in Tiles(trellis), key \in KeyIndices, event \in Events,
           enable \in BOOLEAN, fail \in 0..1 :
          SetKeyEvent(t, key, event, enable, fail)
  \/ /\ call = NoCall
     /\ \E t \in Tiles(trellis), led \in Byte, color \in Colors, fail \in 0..1 :
          SetLedColor(t, led, color, fail)
  \/ /\ call = NoCall
     /\ \E t \in Tiles(trellis), fail \in 0..1 :
          ShowLed(t, fail)
  \/ /\ call = NoCall
     /\ \E t \in Tiles(trellis), n \in BufLens, e \in {None, StaleEvent}, fail \in 0..2 :
          \E data \in DeviceData(n, IF n = 1 THEN Byte ELSE FifoBytes) :
            ReadKeyEvents(t, Slice(n, e), data, fail)
  \/ /\ call = NoCall
     /\ \E t \in Tiles(trellis), b \in {0, 5}, fail \in 0..2 :
          KeypadCount(t, <<b>>, fail)
  \/ /\ call = NoCall
     /\ \E x \in Coords, y \in Coords, color \in Colors, fail \in 0..1 :
          MultiSetLedColor(x, y, color, fail)
  \/ /\ call = NoCall
     /\ \E fail \in 0..NumTiles(trellis) :
          MultiShow(fail)
  \/ /\ call = NoCall
     /\ \E n \in {NumTiles(trellis), SlotSpan(trellis)},
           rx \in MultiRx(trellis),
           fail \in 0..(2 * NumTiles(trellis)) :
          MultiReadEvents(Slice(n, None), rx, fail)
  \/ Return

Spec == Init /\ [][Next]_vars

(***************************************************************************)
(* SpecKey: the Key codec applied to every u8 index.                       *)
(***************************************************************************)
NextKey ==
  \/ \E i \in Byte : KeyFromIndex(i)
  \/ KeySerialize
  \/ KeyDeserialize
  \/ KeyDrop

SpecKey == Init /\ [][NextKey]_vars

(***************************************************************************)
(* SpecMulti: the composer over wider and taller grids.  Two tiles at a    *)
(* time hold events, each with one of a few FIFO contents; the caller's    *)
(* slice has one slot per tile or reaches the last tile's slot, and is     *)
(* empty or holds older events.                                            *)
(***************************************************************************)
MaxCols == 5      \* widest grid: self.trellis.len()
MaxRows == 2      \* tallest grid: self.trellis[x].len()

MultiGrids == {Grid(cols, rows) : cols \in 1..MaxCols, rows \in 1..MaxRows}

InitMulti ==
  /\ trellis \in MultiGrids
  /\ call = NoCall
  /\ trace = <<>>
  /\ result = "Ok"
  /\ events = <<>>
  /\ multi_events = <<>>
  /\ ret = 0
  /\ codec = [pc |-> "idle", index |-> 0, key |-> 0, wire |-> 0, back |-> 0]

\* coordinates inside and just outside the widest and tallest grid, and the
\* largest u8
CoordsUpTo(n) == (0..(4 * n + 1)) \cup {U8Max}

\* an empty FIFO; one event; a sentinel before an event; two events; an
\* event whose key wire byte is above 0x1f
TileAnswers ==
  {EmptyFifo, Fill(<<3>>, 16), Fill(<<255, 110>>, 16), Fill(<<3, 110>>, 16),
   Fill(<<128>>, 16)}

RxPairs(tr) ==
  {[t \in Tiles(tr) |-> IF t = t1 THEN a1 ELSE IF t = t2 THEN a2 ELSE EmptyFifo] :
     t1 \in Tiles(tr), t2 \in Tiles(tr), a1 \in TileAnswers, a2 \in TileAnswers}

StaleMultiEvent == SomeMultiEvent(1, 2, Event_Low)

\* no failure, the first tile's read, the last tile's read
MultiFails(tr) == {0, 2, 2 * NumTiles(tr)}

NextMulti ==
  \/ /\ call = NoCall
     /\ \E x \in CoordsUpTo(MaxCols), y \in CoordsUpTo(MaxRows),
           color \in Colors, fail \in 0..1 :
          MultiSetLedColor(x, y, color, fail)
  \/ /\ call = NoCall
     /\ \E fail \in 0..NumTiles(trellis) :
          MultiShow(fail)
  \/ /\ call = NoCall
     /\ \E n \in {NumTiles(trellis), SlotSpan(trellis)},
           e \in {None, StaleMultiEvent},
           rx \in RxPairs(trellis),
           fail \in MultiFails(trellis) :
          MultiReadEvents(Slice(n, e), rx, fail)
  \/ Return

SpecMulti == InitMulti /\ [][NextMulti]_vars

(***************************************************************************)
(* Properties.                                                             *)
(***************************************************************************)
Reads(tr) == {i \in DOMAIN tr : tr[i].kind = "read"}
Writes(tr) == {i \in DOMAIN tr : tr[i].kind = "write"}
BusTx(tr) == Reads(tr) \cup Writes(tr)
Last(S) == CHOOSE i \in S : \A j \in S : j <= i
BusErrors == {"WriteError", "ReadError"}

\* C1: an index in 0..15 made into a Key, serialized to its wire byte and
\* deserialized again reads back as the same index.
C1_KeyRoundTrip ==
  (codec.pc = "back" /\ codec.index \in 0..15) => codec.back = codec.index

C1_Witness ==
  /\ codec.pc = "back"
  /\ codec.index = 15
  /\ codec.wire = 27
  /\ codec.back = 15

\* C2: every event that read_key_events decodes from a FIFO byte other than
\* the sentinel 0xff carries a key whose index is in 0..15.
C2_DecodedIndexInRange ==
  (call.op = "read_key_events" /\ result = "Ok") =>
    \A k \in DOMAIN events :
      events[k].tag = "Some" => index(events[k].key) \in 0..15

\* C3: a successful read_key_events on a slice of n <= 32 slots reads n FIFO
\* bytes and overwrites slot k from byte k alone: None for 0xff, otherwise
\* Some event with ordinal b & 3 and the key decoded from wire byte b >> 2.
C3_ReadKeyEventsDecodes ==
  (call.op = "read_key_events" /\ result = "Ok") =>
    /\ Len(events) = Len(call.before)
    /\ Len(events) <= 32
    /\ Cardinality(Reads(trace)) = 1
    /\ LET fifo == trace[Last(Reads(trace))].bytes
       IN /\ Len(fifo) = Len(events)
          /\ \A k \in DOMAIN events :
               IF fifo[k] = 255
               THEN events[k] = [tag |-> "None"]
               ELSE events[k] = [tag |-> "Some",
                                 key |-> deserialize(fifo[k] \div 4),
                                 event |-> fifo[k] % 4]

\* a sentinel before a real event, read into a slice that held older events
C3_Witness ==
  /\ call.op = "read_key_events"
  /\ result = "Ok"
  /\ call.before = <<StaleEvent, StaleEvent, StaleEvent>>
  /\ trace[Last(Reads(trace))].bytes = <<255, 110, 255>>
  /\ events = <<[tag |-> "None"],
                [tag |-> "Some", key |-> 15, event |-> 2],
                [tag |-> "None"]>>

\* the event configuration writes of the key with wire byte w for event e
KeyConfigWrites(tr, w, e) ==
  {i \in Writes(tr) :
     /\ Len(tr[i].bytes) = 4
     /\ tr[i].bytes[1] = 16
     /\ tr[i].bytes[2] = 1
     /\ tr[i].bytes[3] = w
     /\ tr[i].bytes[4] \div 2 = Pow2(e)}

\* C4: when new() succeeds (the device answered hardware id 0x55) the device
\* has received pixel pin 3 and buffer length 48 as 0x00, 0x30, and the
\* latest event configuration of each of the 16 keys has the two level
\* events disabled and the two edge events enabled.
C4_NewConfigures ==
  (call.op = "new" /\ result = "Ok") =>
    /\ \E i \in Reads(trace) : trace[i].ok /\ trace[i].bytes = <<85>>
    /\ \E i \in Writes(trace) : trace[i].ok /\ trace[i].bytes = <<14, 1, 3>>
    /\ \E i \in Writes(trace) : trace[i].ok /\ trace[i].bytes = <<14, 3, 0, 48>>
    /\ \A k \in 0..15, e \in 0..3 :
         LET w == 8 * (k \div 4) + (k % 4)
             cfg == KeyConfigWrites(trace, w, e)
         IN /\ cfg # {}
            /\ trace[Last(cfg)].ok
            /\ trace[Last(cfg)].bytes[4] % 2 = (IF e \in {2, 3} THEN 1 ELSE 0)

C4_Witness ==
  /\ call.op = "new"
  /\ result = "Ok"
  /\ Len(trace) = 71

\* C5: when the hardware id read during new() is not 0x55, new() fails with
\* WrongChipId and no write to the neopixel or keypad module is issued.
C5_WrongChipId ==
  (call.op = "new" /\ \E i \in Reads(trace) : trace[i].ok /\ trace[i].bytes # <<85>>) =>
    /\ result = "WrongChipId"
    /\ \A i \in Writes(trace) : trace[i].bytes[1] \notin {14, 16}

C5_Witness ==
  /\ call.op = "new"
  /\ result = "WrongChipId"
  /\ \E i \in Reads(trace) : trace[i].ok /\ trace[i].bytes = <<0>>
  /\ Len(trace) = 5

\* the step of initialization an entry of the trace belongs to
InitStep(e) ==
  CASE e.kind = "write" /\ e.bytes = <<0, 127, 255>> -> 1
    [] e.kind = "delay_ms" /\ e.n = 500 -> 2
    [] e.kind = "write" /\ e.bytes = <<0, 1>> -> 3
    [] e.kind = "delay_ms" /\ e.n = 6 -> 4
    [] e.kind = "read" /\ e.n = 1 -> 5
    [] e.kind = "write" /\ e.bytes = <<14, 1, 3>> -> 6
    [] e.kind = "write" /\ e.bytes = <<14, 3, 0, 48>> -> 7
    [] e.kind = "write" /\ Len(e.bytes) = 4 /\ e.bytes[1] = 16 /\ e.bytes[2] = 1 -> 8
    [] OTHER -> 0

\* C6: new() is a linear sequence: the reset write comes first, then the
\* 500 ms delay, the select of the hardware id register, its 6 ms delay and
\* the read, then the pin write, the buffer length write and only then the
\* keypad configuration writes; nothing goes back and no step is repeated.
C6_InitIsLinear ==
  call.op = "new" =>
    /\ trace # <<>>
    /\ InitStep(trace[1]) = 1
    /\ \A i \in 1..(Len(trace) - 1) :
         \/ InitStep(trace[i]) \in 1..7 /\ InitStep(trace[i + 1]) = InitStep(trace[i]) + 1
         \/ InitStep(trace[i]) = 8 /\ InitStep(trace[i + 1]) = 8
    /\ \A i, j \in DOMAIN trace :
         (i < j /\ InitStep(trace[i]) = 8) => trace[i].bytes # trace[j].bytes

C6_Witness ==
  /\ call.op = "new"
  /\ result = "Ok"
  /\ InitStep(trace[7]) = 7
  /\ InitStep(trace[8]) = 8
  /\ InitStep(trace[71]) = 8

\* the register a read of the last operation selects
SelectOf(op) ==
  CASE op = "new" -> <<0, 1>>
    [] op = "keypad_count" -> <<16, 4>>
    [] op \in {"read_key_events", "multi_read_events"} -> <<16, 16>>
    [] OTHER -> <<>>

\* C7: every bus read is directly preceded by a 6 ms delay, and that by a
\* successful bus write of the two bytes module, register to the same device.
C7_ReadAfterSelectAndDelay ==
  \A i \in Reads(trace) :
    /\ i >= 3
    /\ trace[i - 1].kind = "delay_ms"
    /\ trace[i - 1].n = 6
    /\ trace[i - 2].kind = "write"
    /\ trace[i - 2].ok
    /\ trace[i - 2].bytes = SelectOf(call.op)
    /\ Len(trace[i - 2].bytes) = 2
    /\ trace[i - 2].addr = trace[i].addr
    /\ trace[i - 2].bus = trace[i].bus

\* reads of two tiles in one read_events
C7_Witness ==
  /\ call.op = "multi_read_events"
  /\ result = "Ok"
  /\ \E i, j \in Reads(trace) : trace[i].addr # trace[j].addr

\* the slot of read_events for the tile on bus t
SlotOf(t) == t[1] + 4 * t[2] + 1

\* C8: the first failing bus transaction ends the call with that error: it is
\* the last entry of the trace (no retry, no later transaction or delay, no
\* later tile), an error is returned exactly then, and what earlier tiles
\* completed stays: their transactions are in the trace and the events
\* read_events stored for them are still in the caller's slice.
C8_FirstFailureEndsCall ==
  /\ \A i \in BusTx(trace) : ~trace[i].ok => (i = Len(trace) /\ result \in BusErrors)
  /\ result \in BusErrors => (trace # <<>> /\ ~trace[Len(trace)].ok)
  /\ (call.op = "multi_read_events" /\ result \in BusErrors) =>
       \A i \in Reads(trace) :
         (/\ trace[i].ok
          /\ \E k \in DOMAIN trace[i].bytes : trace[i].bytes[k] # 255
          /\ SlotOf(trace[i].bus) <= Len(multi_events))
         => multi_events[SlotOf(trace[i].bus)].tag = "Some"

\* read_events fails on the second tile after storing the first tile's event
C8_Witness ==
  /\ call.op = "multi_read_events"
  /\ result = "ReadError"
  /\ Cardinality(Reads(trace)) = 2
  /\ multi_events[1].tag = "Some"

\* C9: a failed bus write, of a register write or of the select of a read,
\* is reported as WriteError and is the last entry of the trace (no delay,
\* no read); a failed bus read, after its successful select write, is
\* reported as ReadError.
C9_ErrorsByPhase ==
  /\ \A i \in Writes(trace) :
       ~trace[i].ok => (result = "WriteError" /\ i = Len(trace))
  /\ \A i \in Reads(trace) :
       ~trace[i].ok =>
         (result = "ReadError" /\ i = Len(trace) /\ i >= 3 /\ trace[i - 2].kind = "write" /\ trace[i - 2].ok)
  /\ result = "WriteError" => (trace # <<>> /\ trace[Len(trace)].kind = "write")
  /\ result = "ReadError" => (trace # <<>> /\ trace[Len(trace)].kind = "read")

C9_Witness ==
  /\ call.op = "read_key_events"
  /\ result = "ReadError"
  /\ Len(trace) = 3
  /\ trace[1].ok
  /\ ~trace[3].ok

\* C10: set_led_color of the single device issues exactly one bus write, of
\* the frame 0x0e, 0x04, offset high, offset low, g, r, b with offset
\* led * 3 for every led in 0..255, and when the write succeeds waits
\* 100 microseconds and returns Ok.
C10_SetLedColorFrame ==
  call.op = "set_led_color" =>
    /\ BusTx(trace) = {1}
    /\ trace[1].kind = "write"
    /\ trace[1].bus = call.drv.bus
    /\ trace[1].addr = call.drv.address
    /\ Len(trace[1].bytes) = 7
    /\ trace[1].bytes[1] = 14
    /\ trace[1].bytes[2] = 4
    /\ trace[1].bytes[3] * 256 + trace[1].bytes[4] = call.led * 3
    /\ trace[1].bytes[3] \in 0..255
    /\ trace[1].bytes[4] \in 0..255
    /\ trace[1].bytes[5] = call.color.g
    /\ trace[1].bytes[6] = call.color.r
    /\ trace[1].bytes[7] = call.color.b
    /\ trace[1].ok =>
         /\ Len(trace) = 2
         /\ trace[2].kind = "delay_us"
         /\ trace[2].n = 100
         /\ result = "Ok"

C10_Witness ==
  /\ call.op = "set_led_color"
  /\ call.led = 255
  /\ result = "Ok"
  /\ trace[1].bytes = <<14, 4, 2, 253, 20, 10, 30>>
  /\ trace[2].kind = "delay_us"

(***************************************************************************)
(* C11: for every key, event type and enable flag, set_key_event issues    *)
(* exactly one bus write, to the tile's bus and address, and the frame is  *)
(* [0x10, 0x01, wire byte of the key, (1 << (ordinal + 1)) | enable]; the  *)
(* wire byte of key k keeps the two low bits and moves bits 2..3 up by     *)
(* one.  Enabling rising gives the command byte 0x11, disabling level-high *)
(* gives 0x02.  The call makes no pause, and succeeds when the write does. *)
(***************************************************************************)
C11_SetKeyEventFrame ==
  call.op = "set_key_event" =>
    /\ Len(trace) = 1
    /\ trace[1].kind = "write"
    /\ trace[1].bus = call.drv.bus
    /\ trace[1].addr = call.drv.address
    /\ trace[1].bytes =
         <<16, 1, 8 * ((call.key % 16) \div 4) + (call.key % 4),
           Pow2(call.event + 1) + (IF call.enable THEN 1 ELSE 0)>>
    /\ (call.event = Event_Rising /\ call.enable) => trace[1].bytes[4] = 17
    /\ (call.event = Event_High /\ ~call.enable) => trace[1].bytes[4] = 2
    /\ result = (IF trace[1].ok THEN "Ok" ELSE "WriteError")

C11_Witness ==
  /\ call.op = "set_key_event"
  /\ call.key = 15
  /\ call.event = Event_Rising
  /\ call.enable
  /\ result = "Ok"
  /\ trace[1].bytes = <<16, 1, 27, 17>>

(***************************************************************************)
(* C12: for every global coordinate (x, y) whose tile lies inside the      *)
(* grid, the composer's set_led_color makes exactly one bus transaction: a *)
(* pixel buffer write to the tile at tile column x / 4 and tile row y / 4  *)
(* and to no other tile, for the local LED index (x mod 4) + 4 * (y mod 4),*)
(* which is in 0..15.                                                      *)
(***************************************************************************)
C12_ComposerLedRouting ==
  (call.op = "multi_set_led_color"
     /\ <<call.x \div 4, call.y \div 4>> \in Tiles(trellis)) =>
    LET t == <<call.x \div 4, call.y \div 4>>
        i == (call.x % 4) + 4 * (call.y % 4)
    IN /\ i \in 0..15
       /\ BusTx(trace) = {1}
       /\ trace[1].kind = "write"
       /\ trace[1].bus = Drv(trellis, t).bus
       /\ trace[1].addr = Drv(trellis, t).address
       /\ \A u \in Tiles(trellis) \ {t} : trace[1].bus # Drv(trellis, u).bus
       /\ trace[1].bytes =
            <<14, 4, 0, 3 * i, call.color.g, call.color.r, call.color.b>>

C12_Witness ==
  /\ call.op = "multi_set_led_color"
  /\ call.x = 9
  /\ call.y = 6
  /\ result = "Ok"
  /\ Len(trace) = 2
  /\ trace[1].bus = <<2, 1>>
  /\ trace[1].bytes = <<14, 4, 0, 27, 20, 10, 30>>

(***************************************************************************)
(* C13: when the tile column x / 4 or the tile row y / 4 of the coordinate *)
(* is outside the grid, the composer's set_led_color returns success and   *)
(* makes no bus transaction and no delay.                                  *)
(***************************************************************************)
C13_OutOfGridIsNoOp ==
  (call.op = "multi_set_led_color"
     /\ <<call.x \div 4, call.y \div 4>> \notin Tiles(trellis)) =>
    /\ result = "Ok"
    /\ trace = <<>>

C13_Witness ==
  /\ call.op = "multi_set_led_color"
  /\ call.x \div 4 < Len(trellis)
  /\ call.y \div 4 = Len(trellis[1])
  /\ result = "Ok"
  /\ trace = <<>>

\* the FIFO reads the call made on tile t, and the events in an answer
ReadsOf(t) == {i \in Reads(trace) : trace[i].bus = Drv(trellis, t).bus}
EventsIn(bytes) == {i \in DOMAIN bytes : bytes[i] # 255}
NoBusError == \A i \in BusTx(trace) : trace[i].ok

(***************************************************************************)
(* C14: when no bus error occurs, read_events reads 16 FIFO bytes from     *)
(* every tile and, for each tile that returned at least one byte other     *)
(* than the sentinel, the slot tile_col + 4 * tile_row of the caller's     *)
(* slice holds the last such event of that tile, with the coordinate       *)
(* (4 * tile_col + key_index mod 4, 4 * tile_row + key_index div 4).       *)
(***************************************************************************)
C14_ReadEventsStoresLast ==
  (call.op = "multi_read_events" /\ NoBusError) =>
    \A t \in Tiles(trellis) :
      /\ Cardinality(ReadsOf(t)) = 1
      /\ \A i \in ReadsOf(t) :
           /\ trace[i].n = 16
           /\ EventsIn(trace[i].bytes) # {} =>
                LET item == trace[i].bytes[Last(EventsIn(trace[i].bytes))]
                    key_index == index(decode_item(item).key)
                    slot == t[1] + 4 * t[2]
                IN /\ slot < Len(multi_events)
                   /\ multi_events[slot + 1] =
                        SomeMultiEvent(4 * t[1] + (key_index % 4),
                                       4 * t[2] + (key_index \div 4),
                                       item % 4)

\* the k-th tile (tile column, tile row) of a grid, row by row and in the
\* order of the nested slices (tile column by tile column)
RowMajorTile(tr, k) == <<(k - 1) % Len(tr), (k - 1) \div Len(tr)>>
SliceOrderTile(tr, k) == <<(k - 1) \div Len(tr[1]), (k - 1) % Len(tr[1])>>

\* the k-th pair of trace entries is the latch of tile t and its pause
LatchAt(k, t) ==
  /\ trace[2 * k - 1] =
       Ev("write", Drv(trellis, t).bus, Drv(trellis, t).address, <<14, 5>>, 2, TRUE)
  /\ trace[2 * k] = Ev("delay_us", NoBus, 0, <<>>, 100, TRUE)

(***************************************************************************)
(* C15 as stated: when no bus error occurs, the composer's show() issues   *)
(* exactly one latch write (neopixel show register, empty payload) to      *)
(* every tile, visiting the tiles in row-major order (all tile columns of  *)
(* tile row 0, then those of tile row 1, ...) and finishing one tile's     *)
(* transaction and its 100 microsecond delay before starting the next.     *)
(***************************************************************************)
C15_ShowRowMajor ==
  (call.op = "multi_show" /\ NoBusError) =>
    /\ Len(trace) = 2 * NumTiles(trellis)
    /\ \A k \in 1..NumTiles(trellis) : LatchAt(k, RowMajorTile(trellis, k))

(***************************************************************************)
(* C15 amended: when no bus error occurs, the composer's show() issues     *)
(* exactly one latch write (neopixel show register, empty payload) to      *)
(* every tile, visiting the tiles in the order of the nested slices: all   *)
(* tile rows of tile column 0, then those of tile column 1, ..., and       *)
(* finishing one tile's transaction and its 100 microsecond delay before   *)
(* starting the next.                                                      *)
(***************************************************************************)
C15_ShowSliceOrder ==
  (call.op = "multi_show" /\ NoBusError) =>
    /\ result = "Ok"
    /\ Len(trace) = 2 * NumTiles(trellis)
    /\ \A k \in 1..NumTiles(trellis) : LatchAt(k, SliceOrderTile(trellis, k))

C15_Witness ==
  /\ call.op = "multi_show"
  /\ result = "Ok"
  /\ Len(trellis) = 2
  /\ Len(trellis[1]) = 2
  /\ Len(trace) = 8
  /\ trace[3].bus = <<0, 1>>
  /\ trace[5].bus = <<1, 0>>

(***************************************************************************)
(* C16: read_key_events called with a slice of more than 32 slots aborts   *)
(* before any bus transaction and leaves the slice alone: the request is   *)
(* never truncated.  With n <= 32 slots, n = 32 included, it does not      *)
(* abort and reads exactly n bytes from the keypad FIFO register, in a     *)
(* single bus read after the register is selected.                         *)
(***************************************************************************)
C16_EventBufferLimit ==
  call.op = "read_key_events" =>
    LET n == Len(call.before)
    IN /\ n > 32 =>
            /\ result = "Panic"
            /\ trace = <<>>
            /\ events = call.before
       /\ n <= 32 =>
            /\ result # "Panic"
            /\ Cardinality(Reads(trace)) <= 1
            /\ \A i \in Reads(trace) :
                 /\ trace[i].n = n
                 /\ i = 3
                 /\ trace[1].kind = "write"
                 /\ trace[1].bytes = <<16, 16>>
            /\ NoBusError =>
                 /\ Cardinality(Reads(trace)) = 1
                 /\ result = "Ok"
                 /\ Len(events) = n

C16_Witness ==
  /\ call.op = "read_key_events"
  /\ Len(call.before) = 33
  /\ result = "Panic"
  /\ trace = <<>>

\* the largest slice that is accepted is read whole
C16_WitnessFull ==
  /\ call.op = "read_key_events"
  /\ Len(call.before) = 32
  /\ result = "Ok"
  /\ trace[3].kind = "read"
  /\ trace[3].n = 32
  /\ Len(trace[3].bytes) = 32

\* the tiles that returned an event in this call, and the slots that hold one
TilesWithEvents ==
  {t \in Tiles(trellis) : \E i \in ReadsOf(t) : EventsIn(trace[i].bytes) # {}}
FilledSlots(s) == {i \in DOMAIN s : s[i].tag = "Some"}

(***************************************************************************)
(* C17: in read_events, for any grid shape, two different tiles never write*)
(* their event to the same output slot: when a call on an empty slice      *)
(* returns, every tile that returned an event has filled a slot of its     *)
(* own, so as many slots are filled as tiles returned an event.            *)
(***************************************************************************)
C17_TilesHaveOwnSlots ==
  (call.op = "multi_read_events" /\ result = "Ok"
     /\ FilledSlots(call.before) = {}) =>
    Cardinality(FilledSlots(multi_events)) = Cardinality(TilesWithEvents)

(***************************************************************************)
(* C18: read_events never indexes outside the caller's slice when the      *)
(* slice has one slot per tile (its length is the number of tiles of the   *)
(* grid), whatever the grid shape and whatever the tiles' FIFOs return.    *)
(***************************************************************************)
C18_OneSlotPerTileSuffices ==
  (call.op = "multi_read_events" /\ Len(call.before) = NumTiles(trellis)) =>
    result # "Panic"

(***************************************************************************)
(* C19: read_events only ever writes Some values.  Every slot whose tile   *)
(* returned no event in this call (only 0xFF bytes), and every slot that   *)
(* belongs to no tile, keeps the value it had before the call, so an       *)
(* event of an earlier call stays until an event of the same slot          *)
(* overwrites it; a slot that changed holds Some event and is the slot of  *)
(* a tile that returned one.  This holds however the call ends.            *)
(***************************************************************************)
C19_OnlySomeIsWritten ==
  call.op = "multi_read_events" =>
    /\ Len(multi_events) = Len(call.before)
    /\ \A s \in DOMAIN multi_events :
         \/ multi_events[s] = call.before[s]
         \/ /\ multi_events[s].tag = "Some"
            /\ \E t \in TilesWithEvents : SlotOf(t) = s

C19_Witness ==
  /\ call.op = "multi_read_events"
  /\ result = "Ok"
  /\ Len(call.before) = SlotSpan(trellis)
  /\ \A s \in DOMAIN call.before : call.before[s] = StaleMultiEvent
  /\ \E t \in TilesWithEvents : multi_events[SlotOf(t)] # StaleMultiEvent
  /\ \E t \in Tiles(trellis) \ TilesWithEvents :
       /\ \A u \in TilesWithEvents : SlotOf(u) # SlotOf(t)
       /\ multi_events[SlotOf(t)] = StaleMultiEvent
  /\ \E s \in DOMAIN multi_events :
       /\ \A t \in Tiles(trellis) : SlotOf(t) # s
       /\ multi_events[s] = StaleMultiEvent

====
